---- MODULE Spec2Model ----
(***************************************************************************)
(* Model of indices_example.py: do_generate_indices and the __main__       *)
(* block.  One script invocation is one run; the disk outlives the runs.   *)
(* Library calls (xarray, xclim) are modelled by what the script passes to *)
(* them and what it does with their results; each may raise.               *)
(***************************************************************************)
EXTENDS Integers, Sequences, FiniteSets, TLC

\* ------------------------------------------------------------------ bounds
\* Number of script invocations explored.
MaxRuns == 2

\* ------------------------------------------------------------- the disk
\* Paths a run can touch: two input files in the input folder, an output
\* file the user may (against the advice of lines 39-40) place in the input
\* folder, and an output file elsewhere.  PathOrder is the sorted order in
\* which a glob lists them.
InDir == "in/"

OutDir == "elsewhere/"

PathOrder == << [dir |-> InDir, file |-> "a.nc"],
                [dir |-> InDir, file |-> "b.nc"],
                [dir |-> InDir, file |-> "out.nc"],
                [dir |-> OutDir, file |-> "out.nc"] >>

Paths == {PathOrder[i] : i \in DOMAIN PathOrder}

NoFile == [kind |-> "absent"]

\* A file the write did not finish.
PartialFile == [kind |-> "partial"]

\* An input file: global attributes, dimensions, and the daily variables.
InputFile(name, attrs, dims) ==
    [kind  |-> "nc",
     attrs |-> attrs,
     dims  |-> dims,
     vars  |-> [v \in {"pr", "tasmax", "tasmin"} |-> [var |-> v, file |-> name, dims |-> dims]]]

\* A file left at the output path by some earlier use of the machine.
StaleFile ==
    [kind |-> "nc", attrs |-> "attrsOld",
     vars |-> [v \in {"old_var"} |-> [var |-> v, file |-> "out.nc", dims |-> "grid0"]]]

\* Disks a run can start from.  Input folder: one file, two files sharing
\* their dimensions, two files with mismatched dimensions, or no file.  The
\* output path outside the folder: free, or holding an older file.
InitialDisks ==
    LET none == [p \in Paths |-> NoFile]
        a1   == InputFile("a.nc", "attrsA", "grid1")
        b1   == InputFile("b.nc", "attrsB", "grid1")
        b2   == InputFile("b.nc", "attrsB", "grid2")
        folders == { [none EXCEPT ![PathOrder[1]] = a1],
                     [none EXCEPT ![PathOrder[1]] = a1, ![PathOrder[2]] = b1],
                     [none EXCEPT ![PathOrder[1]] = a1, ![PathOrder[2]] = b2],
                     none }
    IN  folders \cup { [d EXCEPT ![PathOrder[4]] = StaleFile] : d \in folders }

\* ------------------------------------------------------- dialog answers
\* A cancelled dialog returns the empty path.
Cancelled == [dir |-> "", file |-> ""]

\* utils.get_folder_path: the chosen folder, or the empty path.
FolderAnswers == {Cancelled, [dir |-> InDir, file |-> ""]}

\* utils.get_save_path: the chosen file, or the empty path.  Nothing keeps
\* the user from choosing a file of the input folder.

SaveAnswers == {Cancelled} \cup {p \in Paths : p.file \in {"out.nc", "a.nc"}}

\* ------------------------------------------------------------ the state
VARIABLES
    pc,        \* position of the run in the script
    k,         \* index of the next calculation step (lines 79-152)
    runs,      \* script invocations so far
    disk,      \* path -> file
    fldr_in,   \* line 34/37
    file_out,  \* line 41
    ds,        \* lines 53, 55
    ds_out,    \* line 67 and the insertions
    tmp,       \* the local DataArrays of lines 126-129
    encodings, \* line 157
    exc,       \* the exception that ended the run, "" if none
    stdout,    \* what the run printed
    trace,     \* what the run did, in order
    answers,   \* what the two dialogs returned in this run
    disk0,     \* the disk as it was when the run started
    inp,       \* the input folder as it was when the run loaded it
    history    \* one record per run that wrote its output completely

vars == << pc, k, runs, disk, fldr_in, file_out, ds, ds_out, tmp, encodings,
           exc, stdout, trace, answers, disk0, inp, history >>

None == [kind |-> "None"]

Missing == [op |-> "missing"]

EmptyMap == [x \in {} |-> None]

Ev(e) == [ev |-> e, step |-> 0]

NotAsked == [dir |-> "?", file |-> "?"]

NoAnswers == [folder |-> NotAsked, save |-> NotAsked]

\* ------------------------------------------------------ xarray, modelled
\* The files the glob fldr_in + '*.nc' matches, in sorted order (the folder
\* path ends in its separator).
GlobMatches(d, pattern) ==
    SelectSeq(PathOrder, LAMBDA p : p.dir = pattern.dir /\ d[p] # NoFile)

\* xr.open_mfdataset(fldr_in, engine='netcdf4'): the files are combined; the
\* global attributes are those of the first file; a variable is the
\* concatenation of its parts.
open_mfdataset(d, pattern) ==
    LET ps    == GlobMatches(d, pattern)
        names == UNION {DOMAIN d[ps[i]].vars : i \in DOMAIN ps}
        part(v) == SelectSeq(ps, LAMBDA p : v \in DOMAIN d[p].vars)
    IN  [attrs |-> d[ps[1]].attrs,
         vars  |-> [v \in names |->
                      [op |-> "concat",
                       parts |-> [i \in DOMAIN part(v) |-> d[part(v)[i]].vars[v]]]]]

\* The load can succeed only if a file matches and every match is readable.
Loadable(d, pattern) ==
    LET ps == GlobMatches(d, pattern)
    IN  /\ Len(ps) > 0
        /\ \A i \in DOMAIN ps : d[ps[i]].kind = "nc"

\* The resample without keep_attrs: the attributes are dropped.
resample_mean_drop_attrs(dset) ==
    [attrs |-> "",
     vars  |-> [v \in DOMAIN dset.vars |-> [op |-> "resample_D_mean", of |-> dset.vars[v]]]]

\* ds.resample(time='D').mean(keep_attrs=True)
resample_mean(dset) ==
    [attrs |-> dset.attrs,
     vars  |-> [v \in DOMAIN dset.vars |-> [op |-> "resample_D_mean", of |-> dset.vars[v]]]]

\* xr.Dataset(attrs=ds.attrs)
Dataset(attrs) == [attrs |-> attrs, vars |-> EmptyMap]

\* ------------------------------------------------- the calculation steps
\* An Indicator call of lines 79-152: da = xc.atmos.<fn>(<args>, <params>),
\* followed by ds_out[da.name] = da.
Ind(fn, args, params) == [kind |-> "indicator", fn |-> fn, args |-> args, params |-> params]

\* A local DataArray of lines 126-129: <target> = <fn>(<args>, <params>).
Loc(target, fn, args, params) ==
    [kind |-> "local", target |-> target, fn |-> fn, args |-> args, params |-> params]

YS == [freq |-> "YS"]

\* The steps with TN10p given the tasmin percentile computed for CSDI.
CodeSteps_SharedTn10 == <<
    Ind("wetdays", <<"ds.pr">>, [thresh |-> "1 mm/day", freq |-> "YS"]),
    Ind("maximum_consecutive_dry_days", <<"ds.pr">>, [thresh |-> "1 mm/day", freq |-> "YS"]),
    Ind("maximum_consecutive_wet_days", <<"ds.pr">>, [thresh |-> "1 mm/day", freq |-> "YS"]),
    Ind("precip_accumulation", <<"ds.pr">>, YS),
    Ind("daily_pr_intensity", <<"ds.pr">>, [thresh |-> "1 mm/day", freq |-> "YS"]),
    Ind("max_1day_precipitation_amount", <<"ds.pr">>, YS),
    Ind("max_n_day_precipitation_amount", <<"ds.pr">>, [window |-> 5, freq |-> "YS"]),
    Ind("tx_max", <<"ds.tasmax">>, YS),
    Ind("tn_max", <<"ds.tasmin">>, YS),
    Ind("tx_min", <<"ds.tasmax">>, YS),
    Ind("tn_min", <<"ds.tasmin">>, YS),
    Ind("frost_days", <<"ds.tasmin">>, YS),
    Ind("ice_days", <<"ds.tasmax">>, YS),
    Ind("tx_days_above", <<"ds.tasmax">>, [thresh |-> "25 degC", freq |-> "YS"]),
    Ind("tropical_nights", <<"ds.tasmin">>, [thresh |-> "20 degC", freq |-> "YS"]),
    Loc("tas", "tas", <<"ds.tasmin", "ds.tasmax">>, EmptyMap),
    Loc("t10", "percentile_doy", <<"tas">>, [per |-> 10]),
    Loc("t90", "percentile_doy", <<"tas">>, [per |-> 90]),
    Loc("tn10", "percentile_doy", <<"ds.tasmin">>, [per |-> 10]),
    Ind("tx10p", <<"ds.tasmax", "t10">>, YS),
    Ind("tx90p", <<"ds.tasmax", "t90">>, YS),
    Ind("tn10p", <<"ds.tasmin", "tn10">>, YS),
    Ind("tn90p", <<"ds.tasmin", "t90">>, YS),
    Ind("cold_spell_duration_index", <<"ds.tasmin", "tn10">>, [window |-> 1, freq |-> "YS"]) >>

\* Lines 79-152 in the order of the code.
CodeSteps == <<
    Ind("wetdays", <<"ds.pr">>, [thresh |-> "1 mm/day", freq |-> "YS"]),
    Ind("maximum_consecutive_dry_days", <<"ds.pr">>, [thresh |-> "1 mm/day", freq |-> "YS"]),
    Ind("maximum_consecutive_wet_days", <<"ds.pr">>, [thresh |-> "1 mm/day", freq |-> "YS"]),
    Ind("precip_accumulation", <<"ds.pr">>, YS),
    Ind("daily_pr_intensity", <<"ds.pr">>, [thresh |-> "1 mm/day", freq |-> "YS"]),
    Ind("max_1day_precipitation_amount", <<"ds.pr">>, YS),
    Ind("max_n_day_precipitation_amount", <<"ds.pr">>, [window |-> 5, freq |-> "YS"]),
    Ind("tx_max", <<"ds.tasmax">>, YS),
    Ind("tn_max", <<"ds.tasmin">>, YS),
    Ind("tx_min", <<"ds.tasmax">>, YS),
    Ind("tn_min", <<"ds.tasmin">>, YS),
    Ind("frost_days", <<"ds.tasmin">>, YS),
    Ind("ice_days", <<"ds.tasmax">>, YS),
    Ind("tx_days_above", <<"ds.tasmax">>, [thresh |-> "25 degC", freq |-> "YS"]),
    Ind("tropical_nights", <<"ds.tasmin">>, [thresh |-> "20 degC", freq |-> "YS"]),
    Loc("tas", "tas", <<"ds.tasmin", "ds.tasmax">>, EmptyMap),
    Loc("t10", "percentile_doy", <<"tas">>, [per |-> 10]),
    Loc("t90", "percentile_doy", <<"tas">>, [per |-> 90]),
    Loc("tn10", "percentile_doy", <<"ds.tasmin">>, [per |-> 10]),
    Ind("tx10p", <<"ds.tasmax", "t10">>, YS),
    Ind("tx90p", <<"ds.tasmax", "t90">>, YS),
    Ind("tn10p", <<"ds.tasmin", "t10">>, YS),
    Ind("tn90p", <<"ds.tasmin", "t90">>, YS),
    Ind("cold_spell_duration_index", <<"ds.tasmin", "tn10">>, [window |-> 1, freq |-> "YS"]) >>

NSteps == Len(CodeSteps)

LocalNames == {"tas", "t10", "t90", "tn10"}

\* The value an argument expression denotes: an attribute of ds, or a local
\* name; Missing when the variable or the name does not exist (the call
\* then raises AttributeError / NameError).
Operand(ref, dset, locals) ==
    CASE ref = "ds.pr"     -> IF "pr" \in DOMAIN dset.vars THEN dset.vars["pr"] ELSE Missing
      [] ref = "ds.tasmax" -> IF "tasmax" \in DOMAIN dset.vars THEN dset.vars["tasmax"] ELSE Missing
      [] ref = "ds.tasmin" -> IF "tasmin" \in DOMAIN dset.vars THEN dset.vars["tasmin"] ELSE Missing
      [] OTHER             -> IF ref \in DOMAIN locals THEN locals[ref] ELSE Missing

\* The n-day maximum named without its window.
IndicatorName_NoWindow(s) ==
    CASE s.fn = "max_1day_precipitation_amount"  -> "rx1day"
      [] s.fn = "max_n_day_precipitation_amount" -> "rx1day"
      [] s.fn = "cold_spell_duration_index"      -> "csdi"
      [] OTHER                                   -> s.fn

\* da.name: the name the indicator gives its result.  Every indicator has a
\* name of its own, written here as the called function; the 1-day and the
\* n-day maximum and the cold-spell index are named by their window.
IndicatorName(s) ==
    CASE s.fn = "max_1day_precipitation_amount"  -> "rx1day"
      [] s.fn = "max_n_day_precipitation_amount" -> "rx" \o ToString(s.params.window) \o "day"
      [] s.fn = "cold_spell_duration_index"      -> "csdi_" \o ToString(s.params.window)
      [] OTHER                                   -> s.fn

\* A step whose result depends on what the output container already holds.
ApplyStep_ReadsOutput(s, dset, st) ==
    LET args == [i \in DOMAIN s.args |-> Operand(s.args[i], dset, st.tmp)]
        da   == [name |-> IndicatorName(s), fn |-> s.fn, args |-> args, params |-> s.params,
                 seen |-> DOMAIN st.out.vars]
    IN  IF ~st.ok \/ \E i \in DOMAIN args : args[i] = Missing
        THEN [st EXCEPT !.ok = FALSE]
        ELSE IF s.kind = "local"
             THEN [st EXCEPT !.tmp = (s.target :> da) @@ st.tmp]
             ELSE [st EXCEPT !.out.vars = (da.name :> da) @@ st.out.vars]

\* One step of the calculation on st = [out, tmp, ok]: evaluate the
\* arguments, call, and bind the result (a local name, or ds_out[da.name]).
ApplyStep(s, dset, st) ==
    LET args == [i \in DOMAIN s.args |-> Operand(s.args[i], dset, st.tmp)]
        da   == [name |-> IndicatorName(s), fn |-> s.fn, args |-> args, params |-> s.params]
    IN  IF ~st.ok \/ \E i \in DOMAIN args : args[i] = Missing
        THEN [st EXCEPT !.ok = FALSE]
        ELSE IF s.kind = "local"
             THEN [st EXCEPT !.tmp = (s.target :> da) @@ st.tmp]
             ELSE [st EXCEPT !.out.vars = (da.name :> da) @@ st.out.vars]

\* The steps of a sequence applied in order.
RECURSIVE FoldSteps(_, _, _)
FoldSteps(order, dset, st) ==
    IF order = << >> THEN st
    ELSE FoldSteps(Tail(order), dset, ApplyStep(CodeSteps[Head(order)], dset, st))

\* ------------------------------------------------------------ the writer
CompLevel == 4

\* utils.get_to_netcdf_encodings(ds, comp_level): per-variable settings.
get_to_netcdf_encodings(dset, comp_level) ==
    [v \in DOMAIN dset.vars |-> [zlib |-> TRUE, complevel |-> comp_level]]

\* The write appending to the file already at the path.
to_netcdf_append(dset, old, enc) ==
    IF old.kind = "nc"
    THEN [kind |-> "nc", attrs |-> old.attrs, vars |-> dset.vars @@ old.vars, encoding |-> enc]
    ELSE [kind |-> "nc", attrs |-> dset.attrs, vars |-> dset.vars, encoding |-> enc]

\* ds_out.to_netcdf(path, engine='netcdf4', encoding): the file replaces
\* whatever was at the path.
to_netcdf(dset, old, enc) ==
    [kind |-> "nc", attrs |-> dset.attrs, vars |-> dset.vars, encoding |-> enc]

\* --------------------------------------------------------------- actions
Init ==
    /\ pc = "idle"
    /\ k = 0
    /\ runs = 0
    /\ disk \in InitialDisks
    /\ fldr_in = None
    /\ file_out = None
    /\ ds = None
    /\ ds_out = None
    /\ tmp = EmptyMap
    /\ encodings = None
    /\ exc = ""
    /\ stdout = << >>
    /\ trace = << >>
    /\ inp = None
    /\ answers = NoAnswers
    /\ disk0 = disk
    /\ history = << >>

\* The script is started (lines 163-166): a fresh process.
Launch ==
    /\ pc \in {"idle", "exited", "raised"}
    /\ runs < MaxRuns
    /\ runs' = runs + 1
    /\ pc' = "get_folder_path"
    /\ k' = 0
    /\ fldr_in' = None /\ file_out' = None /\ ds' = None /\ ds_out' = None
    /\ tmp' = EmptyMap /\ encodings' = None /\ inp' = None
    /\ exc' = "" /\ stdout' = << >> /\ trace' = << >>
    /\ answers' = NoAnswers
    /\ disk0' = disk
    /\ UNCHANGED << disk, history >>

Raise(msg) ==
    /\ pc' = "raised"
    /\ exc' = msg

\* Lines 34-37.
SelectFolder ==
    /\ pc = "get_folder_path"
    /\ \E ans \in FolderAnswers :
         /\ trace' = Append(trace, Ev("prompt_folder"))
         /\ answers' = [answers EXCEPT !.folder = ans]
         /\ IF ans = Cancelled
            THEN /\ Raise("Folder selection aborted")
                 /\ UNCHANGED fldr_in
            ELSE /\ fldr_in' = [dir |-> ans.dir, glob |-> "*.nc"]
                 /\ pc' = "get_save_path"
                 /\ UNCHANGED exc
    /\ UNCHANGED << k, runs, disk, file_out, ds, ds_out, tmp, encodings, stdout, inp, disk0,
                    history >>

\* The save dialog's answer used unchecked.
SelectSaveFile_Unchecked ==
    /\ pc = "get_save_path"
    /\ \E ans \in SaveAnswers :
         /\ trace' = Append(trace, Ev("prompt_save"))
         /\ answers' = [answers EXCEPT !.save = ans]
         /\ file_out' = ans
         /\ pc' = "open_mfdataset"
    /\ UNCHANGED << k, runs, disk, fldr_in, ds, ds_out, tmp, encodings, exc, stdout, disk0,
                    inp, history >>

\* Lines 41-43.
SelectSaveFile ==
    /\ pc = "get_save_path"
    /\ \E ans \in SaveAnswers :
         /\ trace' = Append(trace, Ev("prompt_save"))
         /\ answers' = [answers EXCEPT !.save = ans]
         /\ IF ans = Cancelled
            THEN /\ Raise("Save file selection aborted")
                 /\ UNCHANGED file_out
            ELSE /\ file_out' = ans
                 /\ pc' = "open_mfdataset"
                 /\ UNCHANGED exc
    /\ UNCHANGED << k, runs, disk, fldr_in, ds, ds_out, tmp, encodings, stdout, inp, disk0,
                    history >>

\* Line 53.
OpenDataset ==
    /\ pc = "open_mfdataset"
    /\ Loadable(disk, fldr_in)
    /\ ds' = open_mfdataset(disk, fldr_in)
    /\ inp' = [p \in {q \in Paths : q.dir = fldr_in.dir} |-> disk[p]]
    /\ trace' = Append(trace, Ev("load"))
    /\ pc' = "resample"
    /\ UNCHANGED << k, runs, disk, fldr_in, file_out, ds_out, tmp, encodings, exc, stdout, 
                    answers, disk0, history >>

\* Line 55.
Resample ==
    /\ pc = "resample"
    /\ ds' = resample_mean(ds)
    /\ trace' = Append(trace, Ev("resample"))
    /\ pc' = "Dataset"
    /\ UNCHANGED << k, runs, disk, fldr_in, file_out, ds_out, tmp, encodings, exc, stdout, inp, 
                    answers, disk0, history >>

\* Line 67.
NewOutput ==
    /\ pc = "Dataset"
    /\ ds_out' = Dataset(ds.attrs)
    /\ pc' = "calc"
    /\ k' = 1
    /\ UNCHANGED << runs, disk, fldr_in, file_out, ds, tmp, encodings, exc, stdout, trace, inp, 
                    answers, disk0, history >>

\* Lines 79-152, one call (and its insertion) at a time, in the code's order.
CalcStep ==
    /\ pc = "calc"
    /\ LET st == ApplyStep(CodeSteps[k], ds, [out |-> ds_out, tmp |-> tmp, ok |-> TRUE])
       IN  /\ st.ok
           /\ ds_out' = st.out
           /\ tmp' = st.tmp
    /\ trace' = Append(trace, [ev |-> "calc", step |-> k])
    /\ IF k < NSteps
       THEN k' = k + 1 /\ pc' = "calc"
       ELSE k' = 0 /\ pc' = "get_to_netcdf_encodings"
    /\ UNCHANGED << runs, disk, fldr_in, file_out, ds, encodings, exc, stdout, inp, 
                    answers, disk0, history >>

\* Line 157.
GetEncodings ==
    /\ pc = "get_to_netcdf_encodings"
    /\ encodings' = get_to_netcdf_encodings(ds_out, CompLevel)
    /\ pc' = "to_netcdf"
    /\ UNCHANGED << k, runs, disk, fldr_in, file_out, ds, ds_out, tmp, exc, stdout, trace, inp, 
                    answers, disk0, history >>

\* Line 160, the write succeeding.
ToNetcdf ==
    /\ pc = "to_netcdf"
    /\ disk' = [disk EXCEPT ![file_out] = to_netcdf(ds_out, disk[file_out], encodings)]
    /\ trace' = Append(trace, Ev("write"))
    /\ history' = Append(history, [inp |-> inp, fldr |-> fldr_in, file_out |-> file_out,
                                   out |-> disk'[file_out]])
    /\ pc' = "print"
    /\ UNCHANGED << k, runs, fldr_in, file_out, ds, ds_out, tmp, encodings, exc, stdout,
                    answers, disk0, inp >>

\* The write's exception swallowed.
ToNetcdfRaises_Swallowed ==
    /\ pc = "to_netcdf"
    /\ \/ UNCHANGED << disk, trace >>
       \/ /\ disk' = [disk EXCEPT ![file_out] = PartialFile]
          /\ trace' = Append(trace, Ev("partial_write"))
    /\ pc' = "print"
    /\ UNCHANGED << k, runs, fldr_in, file_out, ds, ds_out, tmp, encodings, exc, stdout,
                    answers, disk0, inp, history >>

\* Line 160, the write raising: before the file was opened for writing, or
\* after, in which case an unfinished file stays at the path.  Nothing in
\* the script removes it.
ToNetcdfRaises ==
    /\ pc = "to_netcdf"
    /\ \/ UNCHANGED << disk, trace >>
       \/ /\ disk' = [disk EXCEPT ![file_out] = PartialFile]
          /\ trace' = Append(trace, Ev("partial_write"))
    /\ Raise("library error")
    /\ UNCHANGED << k, runs, fldr_in, file_out, ds, ds_out, tmp, encodings, stdout, inp, 
                    answers, disk0, history >>

\* Any library call of lines 53-157 raising; nothing catches it.
LibraryRaises ==
    /\ pc \in {"open_mfdataset", "resample", "Dataset", "calc", "get_to_netcdf_encodings"}
    /\ Raise("library error")
    /\ UNCHANGED << k, runs, disk, fldr_in, file_out, ds, ds_out, tmp, encodings, stdout,
                    trace, inp, 
                    answers, disk0, history >>

\* Line 167.
PrintDone ==
    /\ pc = "print"
    /\ stdout' = Append(stdout, "Done!!!")
    /\ pc' = "exited"
    /\ UNCHANGED << k, runs, disk, fldr_in, file_out, ds, ds_out, tmp, encodings, exc,
                    trace, inp, 
                    answers, disk0, history >>

Next ==
    \/ Launch
    \/ SelectFolder
    \/ SelectSaveFile
    \/ OpenDataset
    \/ Resample
    \/ NewOutput
    \/ CalcStep
    \/ GetEncodings
    \/ ToNetcdf
    \/ ToNetcdfRaises
    \/ LibraryRaises
    \/ PrintDone

Spec == Init /\ [][Next]_vars

\* A started run keeps running until it exits or raises.
FairSpec == Spec /\ WF_vars(Next)

\* ------------------------------------------------------------ properties
Happened(e) == \E i \in DOMAIN trace : trace[i].ev = e

\* The write has returned.
Written == pc \in {"print", "exited"}

IndicatorSteps == {i \in 1..NSteps : CodeSteps[i].kind = "indicator"}

CodeOrder == [i \in 1..NSteps |-> i]

Fresh(dset) == [out |-> Dataset(dset.attrs), tmp |-> EmptyMap, ok |-> TRUE]

\* Lines 53-160 as one function of the input folder and the glob.
Pipeline(folder, pattern) ==
    LET dset == resample_mean(open_mfdataset(folder, pattern))
        st   == FoldSteps(CodeOrder, dset, Fresh(dset))
    IN  to_netcdf(st.out, NoFile, get_to_netcdf_encodings(st.out, CompLevel))

C2_FailedRunLeavesNoFile ==
    pc = "raised" => disk = disk0

\* C3: after a successful run the written file holds exactly one variable
\* per indicator call, under that indicator's name, twenty in all, and
\* none of the inputs or of the intermediate series.
C3_ExactlyTheIndicatorNames ==
    Written =>
        LET f == disk[file_out]
        IN  /\ f.kind = "nc"
            /\ DOMAIN f.vars = {IndicatorName(CodeSteps[i]) : i \in IndicatorSteps}
            /\ Cardinality(IndicatorSteps) = 20
            /\ Cardinality(DOMAIN f.vars) = 20
            /\ \A i \in IndicatorSteps : f.vars[IndicatorName(CodeSteps[i])].fn = CodeSteps[i].fn
            /\ DOMAIN f.vars \cap ({"pr", "tasmax", "tasmin"} \cup LocalNames) = {}

\* A finished run whose input folder also held an earlier output.
C3_Witness ==
    /\ pc = "exited"
    /\ runs = 2
    /\ inp[PathOrder[3]].kind = "nc"
    /\ Cardinality(DOMAIN disk[file_out].vars) = 20

\* C4: the global attributes of the dataset as loaded are those of the
\* dataset after the resample, of the output container at every point of
\* the calculation, and of the file once written.
C4_AttrsEqualInput ==
    inp # None =>
        LET a == open_mfdataset(inp, fldr_in).attrs
        IN  /\ ds.attrs = a
            /\ ds_out # None => ds_out.attrs = a
            /\ Written => disk[file_out].attrs = a

\* A finished run that replaced a file carrying other attributes.
C4_Witness ==
    /\ pc = "exited"
    /\ disk0[file_out] = StaleFile
    /\ disk[file_out].attrs = "attrsA"

Swap(order, i, j) == [order EXCEPT ![i] = order[j], ![j] = order[i]]

LocalsThenReversed ==
    << 16, 17, 18, 19 >> \o [i \in 1..20 |-> IF i <= 5 THEN 25 - i ELSE 21 - i]

Orderings == {Swap(CodeOrder, i, j) : i, j \in 1..NSteps} \cup {LocalsThenReversed}

\* Every step that takes a local series comes after the step that binds it.
ValidOrder(order) ==
    \A pos \in DOMAIN order :
        \A a \in DOMAIN CodeSteps[order[pos]].args :
            LET ref == CodeSteps[order[pos]].args[a]
            IN  ref \in LocalNames =>
                    \E q \in 1..(pos - 1) :
                        /\ CodeSteps[order[q]].kind = "local"
                        /\ CodeSteps[order[q]].target = ref

\* C6: once the calculation is done, every ordering of the steps that
\* binds each local series before its use ends in the output container the
\* code's order produced.
C6_OrderIndependent ==
    pc = "get_to_netcdf_encodings" =>
        \A o \in Orderings :
            ValidOrder(o) =>
                LET r == FoldSteps(o, ds, Fresh(ds))
                IN  r.ok /\ r.out = ds_out

\* The calculation done, with orderings other than the code's that respect
\* the dependencies and orderings that do not.
C6_Witness ==
    /\ pc = "get_to_netcdf_encodings"
    /\ Cardinality({o \in Orderings : ValidOrder(o) /\ o # CodeOrder}) > 100
    /\ ValidOrder(LocalsThenReversed)
    /\ \E o \in Orderings : ~ValidOrder(o) /\ ~FoldSteps(o, ds, Fresh(ds)).ok

\* The calls the run has made so far, as positions of the trace.
Calls == {i \in DOMAIN trace : trace[i].ev = "calc"}

StepAt(i) == CodeSteps[trace[i].step]

PercentileNames == {"t10", "t90", "tn10"}

Producers(name) == {i \in Calls : StepAt(i).kind = "local" /\ StepAt(i).target = name}

Consumers(names) ==
    {i \in Calls : \E a \in DOMAIN StepAt(i).args : StepAt(i).args[a] \in names}

IndicatorConsumers(names) == {i \in Consumers(names) : StepAt(i).kind = "indicator"}

\* Every local series is bound at most once, and before every call using it.
ComputedOnceBeforeUse ==
    \A name \in LocalNames :
        /\ Cardinality(Producers(name)) <= 1
        /\ \A i \in Consumers({name}) : \E q \in Producers(name) : q < i

\* C7: when the calculation is done, each intermediate series was computed
\* once and before its use, two percentile series were computed, and four
\* indicator calls took a percentile series.
C7_TwoPercentileSeriesFourConsumers ==
    pc = "get_to_netcdf_encodings" =>
        /\ ComputedOnceBeforeUse
        /\ Cardinality({i \in Calls : StepAt(i).fn = "percentile_doy"}) = 2
        /\ Cardinality(IndicatorConsumers(PercentileNames)) = 4

\* C7 as amended: each intermediate series is computed once and before its
\* use; when the calculation is done, the mean temperature and three
\* percentile series were computed (10th and 90th of the mean temperature,
\* 10th of tasmin); the two percentile series of the mean temperature were
\* taken by exactly the four calls tx10p, tx90p, tn10p, tn90p, the tasmin
\* percentile by exactly the cold-spell call, and no other indicator call
\* took a percentile series.
C7_ThreePercentileSeriesFiveConsumers ==
    /\ ComputedOnceBeforeUse
    /\ pc = "get_to_netcdf_encodings" =>
        /\ \A name \in LocalNames : Cardinality(Producers(name)) = 1
        /\ {<< StepAt(i).target, StepAt(i).args, StepAt(i).params.per >> :
               i \in {j \in Calls : StepAt(j).fn = "percentile_doy"}}
           = { << "t10", << "tas" >>, 10 >>, << "t90", << "tas" >>, 90 >>,
               << "tn10", << "ds.tasmin" >>, 10 >> }
        /\ Cardinality({i \in Calls : StepAt(i).fn = "percentile_doy"}) = 3
        /\ {StepAt(i).fn : i \in IndicatorConsumers({"t10", "t90"})}
           = {"tx10p", "tx90p", "tn10p", "tn90p"}
        /\ Cardinality(IndicatorConsumers({"t10", "t90"})) = 4
        /\ {StepAt(i).fn : i \in IndicatorConsumers({"tn10"})} = {"cold_spell_duration_index"}
        /\ Cardinality(IndicatorConsumers(PercentileNames)) = 5
        /\ IndicatorConsumers({"tas"}) = {}

\* The calculation done in a run whose output container holds the result
\* of the cold-spell call on the tasmin percentile.
C7_Witness ==
    /\ pc = "get_to_netcdf_encodings"
    /\ Cardinality(Calls) = NSteps
    /\ "tn10" \in DOMAIN tmp
    /\ \E n \in DOMAIN ds_out.vars :
          /\ ds_out.vars[n].fn = "cold_spell_duration_index"
          /\ ds_out.vars[n].args[2] = tmp["tn10"]

\* C8: the save dialog is shown after the folder dialog and after the
\* calculations.
C8_SavePromptAfterCalculations ==
    \A i \in DOMAIN trace :
        trace[i].ev = "prompt_save" =>
            /\ \E j \in 1..(i - 1) : trace[j].ev = "prompt_folder"
            /\ \E j \in 1..(i - 1) : trace[j].ev = "calc" /\ trace[j].step = NSteps

\* C9: the cold-spell call is made on tasmin and its 10th percentile with a
\* window of 6 days and annual frequency.
C9_CsdiWindowIsSix ==
    \A i \in Calls :
        StepAt(i).fn = "cold_spell_duration_index" =>
            /\ StepAt(i).args = << "ds.tasmin", "tn10" >>
            /\ StepAt(i).params.freq = "YS"
            /\ StepAt(i).params.window = 6

\* The message is printed at most once, only after the write, and never by
\* a run that raised; a run raises only with an exception.
C10_Safety ==
    /\ Len(stdout) <= 1
    /\ stdout # << >> =>
          /\ Happened("write")
          /\ disk[file_out] = to_netcdf(ds_out, disk0[file_out], encodings)
          /\ exc = ""
    /\ pc = "raised" => stdout = << >> /\ exc # ""
    /\ exc # "" => pc = "raised"
    /\ pc = "exited" => stdout = << "Done!!!" >>

\* C10: the completion message is printed at most once per run and only
\* after the output file was written; a run that aborted or raised printed
\* nothing; and every started run ends, either raised with its exception or
\* exited with the file written and the message printed.
C10_DoneOnlyAfterWrite ==
    /\ []C10_Safety
    /\ (pc = "get_folder_path") ~> (pc \in {"exited", "raised"})

\* A run that has written its file, printed the message and exited.
C10_Witness ==
    /\ pc = "exited"
    /\ stdout = << "Done!!!" >>
    /\ Happened("write")
    /\ disk[file_out].kind = "nc"

====
